---- MODULE Spec2Model ----
(***************************************************************************)
(* Scan workflow of the operator console (src/src/pages/Dashboard.tsx):    *)
(* the React state of the Dashboard component, the browser's localStorage, *)
(* the scan POSTs in flight and the step timers, driven by the user's      *)
(* actions, by the router (Sidebar, Login) and by network callbacks.       *)
(***************************************************************************)
EXTENDS Integers, Sequences, FiniteSets, TLC

\* ------------------------------------------------------------------------
\* Bounds
\* ------------------------------------------------------------------------

\* At most this many presses of "Run Scan" are explored in one behaviour.
MaxRuns == 2

\* At most this many presses of "Save & Upload" are explored in one behaviour.
MaxSubmits == 2

\* Download GETs in flight at one time.
MaxDownloads == 2

\* ------------------------------------------------------------------------
\* JavaScript values
\* ------------------------------------------------------------------------

\* A nullable JS value is a sequence of length at most one: null is the
\* empty one.
None == << >>

Some(v) == << v >>

\* Strings are sequences of characters.
EmptyStr == << >>

\* White space as String.prototype.trim understands it (the characters that
\* occur in the probes of this model).
WhiteSpace == {" ", "\n", "\t"}

RECURSIVE TrimStart(_)
TrimStart(s) ==
    IF s = << >> THEN << >>
    ELSE IF Head(s) \in WhiteSpace THEN TrimStart(Tail(s)) ELSE s

RECURSIVE TrimEnd(_)
TrimEnd(s) ==
    IF s = << >> THEN << >>
    ELSE IF s[Len(s)] \in WhiteSpace THEN TrimEnd(SubSeq(s, 1, Len(s) - 1)) ELSE s

\* String.prototype.trim
Trim(s) == TrimEnd(TrimStart(s))

\* !s.trim() : the empty string is the only falsy string
IsBlank(s) == Trim(s) = EmptyStr

\* The probe texts a user types into each field. The first field takes the
\* empty text, a text of white space and a command made of the two
\* characters JSON has to escape; the other two take the empty text and a
\* command with white space around it.
ProbeValues(field) ==
    CASE field = "bearerTokenCurl" -> { << >>, << " " >>, << "\"", "\\" >> }
      [] field = "scanTriggerCurl" -> { << >>, << " ", "b" >> }
      [] field = "clientResultCurl" -> { << >>, << "c", "\n" >> }

\* The initial value of the scanFormData state.
EmptyForm ==
    [bearerTokenCurl |-> EmptyStr, scanTriggerCurl |-> EmptyStr, clientResultCurl |-> EmptyStr]

FormFields == {"bearerTokenCurl", "scanTriggerCurl", "clientResultCurl"}

\* AnyBlank without the trim.
AnyBlank_NoTrim(form) ==
    \/ form.bearerTokenCurl = EmptyStr
    \/ form.scanTriggerCurl = EmptyStr
    \/ form.clientResultCurl = EmptyStr

\* The disabled condition of the "Run Scan" button, and the validation at the
\* head of handleScanFormSubmit.
AnyBlank(form) ==
    \/ IsBlank(form.bearerTokenCurl)
    \/ IsBlank(form.scanTriggerCurl)
    \/ IsBlank(form.clientResultCurl)

\* ------------------------------------------------------------------------
\* JSON.stringify / JSON.parse
\*
\* A JSON text is a sequence of characters. The punctuation { } : , " and
\* the escape \ are characters; a property name and each of the literals
\* true, false and null is written as one character.
\*
\* Where a value is used more than once it is bound by \in { value }, which
\* evaluates it once.
\* ------------------------------------------------------------------------

Quote == "\""

Backslash == "\\"

\* Escape with the backslash left as it is.
RECURSIVE Escape_QuoteOnly(_)
Escape_QuoteOnly(s) ==
    IF s = << >> THEN << >>
    ELSE IF Head(s) = Quote THEN << Backslash, Head(s) >> \o Escape_QuoteOnly(Tail(s))
    ELSE << Head(s) >> \o Escape_QuoteOnly(Tail(s))

\* JSON.stringify escapes the quote and the backslash inside a string.
RECURSIVE Escape(_)
Escape(s) ==
    IF s = << >> THEN << >>
    ELSE IF Head(s) \in {Quote, Backslash} THEN << Backslash, Head(s) >> \o Escape(Tail(s))
    ELSE << Head(s) >> \o Escape(Tail(s))

\* A property name as a string; none of the names holds a character that
\* needs escaping.
Chars(name) == << name >>

StringifyBool(b) == << IF b THEN "true" ELSE "false" >>

StringifyString(s) == << Quote >> \o Escape(s) \o << Quote >>

Member(name, valueText) == StringifyString(Chars(name)) \o << ":" >> \o valueText

StringifyForm(form) ==
    << "{" >>
        \o Member("bearerTokenCurl", StringifyString(form.bearerTokenCurl)) \o << "," >>
        \o Member("scanTriggerCurl", StringifyString(form.scanTriggerCurl)) \o << "," >>
        \o Member("clientResultCurl", StringifyString(form.clientResultCurl))
        \o << "}" >>

\* JSON.stringify(state) of the object saveScanState receives: the
\* properties in the order of the object literal.
JSONStringify(state) ==
    << "{" >>
        \o Member("isScanning", StringifyBool(state.isScanning)) \o << "," >>
        \o Member("scanCompleted", StringifyBool(state.scanCompleted)) \o << "," >>
        \o Member("isScanExpanded", StringifyBool(state.isScanExpanded)) \o << "," >>
        \o Member("scanFormData", StringifyForm(state.scanFormData))
        \o << "}" >>

\* Parsed JS values.
JBool(b) == [type |-> "bool", b |-> b]

JStr(s) == [type |-> "string", s |-> s]

JNull == [type |-> "null"]

JUndefined == [type |-> "undefined"]

\* An object: the sequence of its (name, value) members in source order.
JObj(members) == [type |-> "object", members |-> members]

\* The result of a parsing step: ok, the value, the index after it.
Parsed(v, next) == [ok |-> TRUE, v |-> v, next |-> next]

SyntaxError == [ok |-> FALSE]

\* The characters of a string literal from position i, after the opening
\* quote, up to the closing quote: a backslash stands before a quote or a
\* backslash.
RECURSIVE ScanString(_, _, _)
ScanString(text, i, acc) ==
    IF i > Len(text) THEN SyntaxError
    ELSE IF text[i] = Quote THEN Parsed(JStr(acc), i + 1)
    ELSE IF text[i] = Backslash
         THEN IF i + 1 <= Len(text) /\ text[i + 1] \in {Quote, Backslash}
              THEN ScanString(text, i + 2, Append(acc, text[i + 1]))
              ELSE SyntaxError
    ELSE ScanString(text, i + 1, Append(acc, text[i]))

RECURSIVE ParseValue(_, _)
RECURSIVE ParseMembers(_, _, _)

\* value := true | false | null | string | "{" [ members ] "}"
ParseValue(text, i) ==
    IF i > Len(text) THEN SyntaxError
    ELSE CASE text[i] = "true" -> Parsed(JBool(TRUE), i + 1)
           [] text[i] = "false" -> Parsed(JBool(FALSE), i + 1)
           [] text[i] = "null" -> Parsed(JNull, i + 1)
           [] text[i] = Quote -> ScanString(text, i + 1, << >>)
           [] text[i] = "{" ->
                IF i + 1 <= Len(text) /\ text[i + 1] = "}"
                THEN Parsed(JObj(<< >>), i + 2)
                ELSE ParseMembers(text, i + 1, << >>)
           [] OTHER -> SyntaxError

\* The rest of the members after the value val of the member name.
MembersAfter(text, acc, name, val) ==
    IF ~val.ok \/ val.next > Len(text) THEN SyntaxError
    ELSE CASE text[val.next] = "}" ->
                Parsed(JObj(Append(acc, << name.v.s, val.v >>)), val.next + 1)
           [] text[val.next] = "," ->
                ParseMembers(text, val.next + 1, Append(acc, << name.v.s, val.v >>))
           [] OTHER -> SyntaxError

\* The value after the name of a member and its colon.
MemberValue(text, acc, name) ==
    IF ~name.ok \/ name.next > Len(text) THEN SyntaxError
    ELSE IF text[name.next] # ":" THEN SyntaxError
    ELSE CHOOSE res \in { MembersAfter(text, acc, name, val) :
                          val \in { ParseValue(text, name.next + 1) } } : TRUE

\* members := string ":" value { "," string ":" value } "}"
ParseMembers(text, i, acc) ==
    IF i > Len(text) THEN SyntaxError
    ELSE IF text[i] # Quote THEN SyntaxError
    ELSE CHOOSE res \in { MemberValue(text, acc, name) :
                          name \in { ScanString(text, i + 1, << >>) } } : TRUE

\* The value of a text that is exactly one JSON value.
WholeText(text, r) ==
    IF r.ok /\ r.next = Len(text) + 1 THEN [ok |-> TRUE, v |-> r.v] ELSE SyntaxError

\* JSON.parse(text): the value, or a thrown SyntaxError.
JSONParse(text) ==
    CHOOSE res \in { WholeText(text, r) : r \in { ParseValue(text, 1) } } : TRUE

\* obj.name : the last member of that name, undefined when there is none or
\* when obj is a primitive.
RECURSIVE Lookup(_, _, _)
Lookup(members, name, i) ==
    IF i = 0 THEN JUndefined
    ELSE IF members[i][1] = Chars(name) THEN members[i][2]
    ELSE Lookup(members, name, i - 1)

Get(obj, name) ==
    IF obj.type = "object" THEN Lookup(obj.members, name, Len(obj.members)) ELSE JUndefined

\* JS truthiness of a parsed value.
Truthy(v) ==
    CASE v.type = "bool" -> v.b
      [] v.type = "string" -> v.s # EmptyStr
      [] v.type = "object" -> TRUE
      [] OTHER -> FALSE


\* ------------------------------------------------------------------------
\* State
\* ------------------------------------------------------------------------

VARIABLES
    page,               \* the route shown: the Dashboard is mounted iff "dashboard"
    isScanning,         \* React state of the mounted Dashboard
    scanCompleted,
    isScanExpanded,
    scanStep,
    scanFormData,
    scanResults,
    isResetDialogOpen,
    localStorage,       \* key -> nullable value
    requests,           \* scan POSTs sent and not yet resolved
    timers,             \* pending setTimeout callbacks of the mounted Dashboard
    toast,              \* title of the notification emitted by the last step
    lastEvent,          \* history: the step taken last
    lastSaved,          \* history: the object last handed to saveScanState
    runPresses,         \* history: presses of "Run Scan"
    acceptedRuns,       \* history: presses with three non-blank probes and a token
    scanPosts,          \* history: POSTs sent to /data-scan
    isUploadModalOpen,  \* React state of the mounted Dashboard: the upload card
    isUploading,
    uploadStatus,
    uploadedFileUrl,
    cloudVendor,        \* React state of the UploadModal
    selectedDatastore,
    credentials,
    submissions,        \* runs of UploadModal.handleUpload waiting for a response
    submitPresses,      \* history: presses of "Save & Upload"
    preStorePosts,      \* history: POSTs sent to /store-s3-bucketname
    uploadPosts,        \* history: POSTs sent to /upload-env-bucket
    downloads           \* kind -> GETs of that download button not yet resolved

memory == << isScanning, scanCompleted, isScanExpanded, scanStep, scanFormData,
             scanResults, isResetDialogOpen >>

history == << lastSaved, runPresses, acceptedRuns, scanPosts >>

\* The state of the UploadModal.
wizard == << cloudVendor, selectedDatastore, credentials >>

\* The Dashboard's state of the upload card.
uploadState == << isUploadModalOpen, isUploading, uploadStatus, uploadedFileUrl >>

uploadHistory == << submitPresses, preStorePosts, uploadPosts >>

uploadCard == << wizard, uploadState, submissions, uploadHistory >>

downloadCard == << downloads >>

vars == << page, memory, localStorage, requests, timers, toast, lastEvent, history,
           uploadCard, downloadCard >>

SCAN_STATE_KEY == "dashboardScanState"

AUTH_TOKEN_KEY == "authToken"

NoToast == "(none)"

\* No download GET is in flight.
NoDownloads == [kind \in {"report", "artifacts"} |-> 0]

\* No setTimeout callback is pending.
NoTimers == [step \in {2, 3} |-> 0]

\* localStorage.getItem
GetItem(key) == localStorage[key]

\* ------------------------------------------------------------------------
\* Persistence adapter
\* ------------------------------------------------------------------------

\* saveScanState: localStorage.setItem(SCAN_STATE_KEY, JSON.stringify(state))
saveScanState(store, state) ==
    [store EXCEPT ![SCAN_STATE_KEY] = Some(JSONStringify(state))]

\* clearScanState that empties the record instead of removing it.
clearScanState_EmptyObject(store) == [store EXCEPT ![SCAN_STATE_KEY] = Some(<< "{", "}" >>)]

\* clearScanState: localStorage.removeItem(SCAN_STATE_KEY)
clearScanState(store) == [store EXCEPT ![SCAN_STATE_KEY] = None]

\* ParsedOrNull that answers a thrown SyntaxError with an empty object.
ParsedOrNull_EmptyObject(r) == IF r.ok THEN r.v ELSE JObj(<< >>)

\* The catch of loadScanState: a thrown SyntaxError makes it return null.
ParsedOrNull(r) == IF r.ok THEN r.v ELSE JNull

\* loadScanState: the parsed record, or null when there is none, when the
\* stored text is the empty string or when JSON.parse throws.
loadScanState(store) ==
    IF store[SCAN_STATE_KEY] = None THEN JNull
    ELSE IF store[SCAN_STATE_KEY][1] = << >> THEN JNull
    ELSE CHOOSE res \in { ParsedOrNull(r) : r \in { JSONParse(store[SCAN_STATE_KEY][1]) } } : TRUE

\* A string member of the parsed scanFormData (saveScanState only ever
\* writes strings there).
StringOf(v) == IF v.type = "string" THEN v.s ELSE EmptyStr

\* savedState.scanFormData || { bearerTokenCurl: '', ... }
FormOrEmpty(v) ==
    IF Truthy(v)
    THEN [bearerTokenCurl |-> StringOf(Get(v, "bearerTokenCurl")),
          scanTriggerCurl |-> StringOf(Get(v, "scanTriggerCurl")),
          clientResultCurl |-> StringOf(Get(v, "clientResultCurl"))]
    ELSE EmptyForm

\* The scan card's view selection in the render: the first matching branch
\* of the conditional chain.
View(expanded, scanning, completed) ==
    IF ~expanded /\ ~scanning /\ ~completed THEN "start"
    ELSE IF expanded /\ ~scanning /\ ~completed THEN "form"
    ELSE IF scanning THEN "progress"
    ELSE IF completed THEN "completed"
    ELSE "none"

\* The phase a view stands for.
PhaseOf(view) ==
    CASE view = "start" -> "Idle"
      [] view = "form" -> "Configuring"
      [] view = "progress" -> "Running"
      [] view = "completed" -> "Completed"
      [] OTHER -> "None"

Mounted == page = "dashboard"

CurrentView == View(isScanExpanded, isScanning, scanCompleted)

Phase == PhaseOf(CurrentView)

\* The page accepts clicks: the Dashboard is mounted and neither modal
\* dialog (reset, upload) covers it.
Interactive == Mounted /\ ~isResetDialogOpen /\ ~isUploadModalOpen

\* The restore effect's reading of what loadScanState returned:
\* savedState.x || false for the flags, savedState.scanFormData || {...} for
\* the probes, and the useState defaults when savedState is null.
Restored(savedState) ==
    IF Truthy(savedState)
    THEN [isScanning |-> Truthy(Get(savedState, "isScanning")),
          scanCompleted |-> Truthy(Get(savedState, "scanCompleted")),
          isScanExpanded |-> Truthy(Get(savedState, "isScanExpanded")),
          scanFormData |-> FormOrEmpty(Get(savedState, "scanFormData"))]
    ELSE [isScanning |-> FALSE, scanCompleted |-> FALSE, isScanExpanded |-> FALSE,
          scanFormData |-> EmptyForm]

\* The scan state a mount would restore from a store.
StoredFlags(store) ==
    CHOOSE res \in { Restored(savedState) : savedState \in { loadScanState(store) } } : TRUE

\* The phase of restored flags.
PhaseOfFlags(f) == PhaseOf(View(f.isScanExpanded, f.isScanning, f.scanCompleted))

\* The phase and the definition of the persisted record (no record: Idle).
StoredPhase ==
    CHOOSE res \in { PhaseOfFlags(f) : f \in { StoredFlags(localStorage) } } : TRUE

StoredForm == StoredFlags(localStorage).scanFormData

\* The in-memory and the persisted scan state agree on phase and definition.
InSync ==
    \E f \in { StoredFlags(localStorage) } :
        PhaseOfFlags(f) = Phase /\ f.scanFormData = scanFormData

\* The scan state in memory differs, in phase or definition, from the object
\* last saved (from Idle with empty probes when there is no record).
Diverged ==
    \E f \in { IF lastSaved = None THEN Restored(JNull) ELSE lastSaved[1] } :
        PhaseOfFlags(f) # Phase \/ f.scanFormData # scanFormData

\* ------------------------------------------------------------------------
\* Mount: useState initial values, then the restore effect
\* ------------------------------------------------------------------------

\* useState initial values of the upload card and of the UploadModal.
InitialUploadCard ==
    /\ isUploadModalOpen' = FALSE
    /\ isUploading' = FALSE
    /\ uploadStatus' = "idle"
    /\ uploadedFileUrl' = EmptyStr
    /\ cloudVendor' = None
    /\ selectedDatastore' = None
    /\ credentials' = << >>

InitialMemory ==
    /\ InitialUploadCard
    /\ isScanning' = FALSE
    /\ scanCompleted' = FALSE
    /\ isScanExpanded' = FALSE
    /\ scanStep' = 1
    /\ scanFormData' = EmptyForm
    /\ scanResults' = None
    /\ isResetDialogOpen' = FALSE

\* useEffect(() => { ... }, []) : restore on mount from the store as it is
\* after this step; the other state keeps its useState initial value.
RestoreOnMount(store) ==
    \E f \in { StoredFlags(store) } :
        /\ InitialUploadCard
        /\ scanStep' = 1
        /\ scanResults' = None
        /\ isResetDialogOpen' = FALSE
        /\ isScanning' = f.isScanning
        /\ scanCompleted' = f.scanCompleted
        /\ isScanExpanded' = f.isScanExpanded
        /\ scanFormData' = f.scanFormData

\* Unmounting leaves the requests in flight, but their callbacks now set the
\* state of a component that is gone.
Detach(reqs) == { [r EXCEPT !.live = FALSE] : r \in reqs }

Event(op) == [op |-> op]

\* Stored texts that are no JSON value: the empty string, a record cut off
\* after its first member, and a text that never was a record.
CorruptRecords ==
    { << >>,
      << "{", Quote, "isScanning", Quote, ":", "true" >>,
      << "x" >> }

\* What the first load can find under SCAN_STATE_KEY: nothing, or a text
\* that is no JSON value (every text the Dashboard writes itself is one).
InitialRecords == { None } \cup { Some(text) : text \in CorruptRecords }

Init ==
    /\ page = "dashboard"
    /\ isScanning = FALSE
    /\ scanCompleted = FALSE
    /\ isScanExpanded = FALSE
    /\ scanStep = 1
    /\ scanFormData = EmptyForm
    /\ scanResults = None
    /\ isResetDialogOpen = FALSE
    /\ localStorage \in { [k \in {SCAN_STATE_KEY, AUTH_TOKEN_KEY} |->
                             IF k = AUTH_TOKEN_KEY THEN tok ELSE rec] :
                          tok \in {None, Some("authenticated")}, rec \in InitialRecords }
    /\ requests = {}
    /\ timers = NoTimers
    /\ toast = NoToast
    /\ lastEvent = Event("Init")
    /\ lastSaved = None
    /\ runPresses = 0
    /\ acceptedRuns = 0
    /\ scanPosts = 0
    /\ isUploadModalOpen = FALSE
    /\ isUploading = FALSE
    /\ uploadStatus = "idle"
    /\ uploadedFileUrl = EmptyStr
    /\ cloudVendor = None
    /\ selectedDatastore = None
    /\ credentials = << >>
    /\ submissions = {}
    /\ submitPresses = 0
    /\ preStorePosts = 0
    /\ uploadPosts = 0
    /\ downloads = NoDownloads


\* ------------------------------------------------------------------------
\* Scan card
\* ------------------------------------------------------------------------

\* "Start Scan" button: onClick={() => setIsScanExpanded(true)}
StartScan ==
    /\ Interactive
    /\ CurrentView = "start"
    /\ isScanExpanded' = TRUE
    /\ toast' = NoToast
    /\ lastEvent' = Event("StartScan")
    /\ UNCHANGED << page, isScanning, scanCompleted, scanStep, scanFormData, scanResults,
                    isResetDialogOpen, localStorage, requests, timers, history >>
    /\ UNCHANGED uploadCard
    /\ UNCHANGED downloadCard

\* ChangedState with the scanFormData of the render instead of newFormData.
ChangedState_StaleForm(newFormData) ==
    [isScanning |-> isScanning, scanCompleted |-> scanCompleted,
     isScanExpanded |-> isScanExpanded, scanFormData |-> scanFormData]

\* The object handleScanFormChange hands to saveScanState.
ChangedState(newFormData) ==
    [isScanning |-> isScanning, scanCompleted |-> scanCompleted,
     isScanExpanded |-> isScanExpanded, scanFormData |-> newFormData]

\* handleScanFormChange(field, value): a Textarea's onChange in the form view
handleScanFormChange(field, value) ==
    LET newFormData == [scanFormData EXCEPT ![field] = value] IN
    /\ Interactive
    /\ CurrentView = "form"
    /\ value # scanFormData[field]
    /\ scanFormData' = newFormData
    /\ localStorage' = saveScanState(localStorage, ChangedState(newFormData))
    /\ lastSaved' = Some(ChangedState(newFormData))
    /\ toast' = NoToast
    /\ lastEvent' = [op |-> "Keystroke", diverged |-> Diverged]
    /\ UNCHANGED << page, isScanning, scanCompleted, isScanExpanded, scanStep, scanResults,
                    isResetDialogOpen, requests, timers, runPresses, acceptedRuns, scanPosts >>
    /\ UNCHANGED uploadCard
    /\ UNCHANGED downloadCard

\* The object handleScanFormSubmit hands to saveScanState.
SubmitState(scanning, completed) ==
    [isScanning |-> scanning, scanCompleted |-> completed,
     isScanExpanded |-> TRUE, scanFormData |-> scanFormData]

\* The two setTimeout calls of one submit: one more pending callback for
\* setScanStep(2) and one more for setScanStep(3).
StepTimers(pending) == [step \in {2, 3} |-> pending[step] + 1]

\* The request fetch sends: the probes in curl_commands, and the closure of
\* the callbacks (the scanFormData of the render that submitted).
ScanRequest(n) ==
    [id |-> n,
     curl_commands |-> << scanFormData.bearerTokenCurl, scanFormData.scanTriggerCurl,
                          scanFormData.clientResultCurl >>,
     scanFormData |-> scanFormData,
     live |-> TRUE]

\* handleScanFormSubmit, first exit: a blank probe.
SubmitInvalid ==
    /\ toast' = "Validation Error"
    /\ UNCHANGED << isScanning, scanStep, localStorage, requests, timers, lastSaved, scanPosts >>

\* SubmitUnauthenticated without the return: the POST goes out unauthenticated.
SubmitUnauthenticated_StillFetches ==
    /\ toast' = "Not authenticated"
    /\ isScanning' = FALSE
    /\ scanStep' = 1
    /\ localStorage' = saveScanState(localStorage, SubmitState(FALSE, FALSE))
    /\ lastSaved' = Some(SubmitState(FALSE, FALSE))
    /\ timers' = StepTimers(timers)
    /\ requests' = requests \cup { ScanRequest(runPresses + 1) }
    /\ scanPosts' = scanPosts + 1

\* SubmitUnauthenticated without taking the scanning state back.
SubmitUnauthenticated_KeepsScanning ==
    /\ toast' = "Not authenticated"
    /\ isScanning' = TRUE
    /\ scanStep' = 1
    /\ localStorage' = saveScanState(localStorage, SubmitState(TRUE, FALSE))
    /\ lastSaved' = Some(SubmitState(TRUE, FALSE))
    /\ timers' = StepTimers(timers)
    /\ UNCHANGED << requests, scanPosts >>

\* handleScanFormSubmit, second exit: no authToken. The scanning state set
\* and saved at the top is taken back; the timers stay scheduled.
SubmitUnauthenticated ==
    /\ toast' = "Not authenticated"
    /\ isScanning' = FALSE
    /\ scanStep' = 1
    /\ localStorage' = saveScanState(saveScanState(localStorage, SubmitState(TRUE, FALSE)),
                                     SubmitState(FALSE, FALSE))
    /\ lastSaved' = Some(SubmitState(FALSE, FALSE))
    /\ timers' = StepTimers(timers)
    /\ UNCHANGED << requests, scanPosts >>

\* SubmitFetch that sends the request without saving the record first.
SubmitFetch_NoSave ==
    /\ toast' = NoToast
    /\ isScanning' = TRUE
    /\ scanStep' = 1
    /\ timers' = StepTimers(timers)
    /\ requests' = requests \cup { ScanRequest(runPresses + 1) }
    /\ scanPosts' = scanPosts + 1
    /\ UNCHANGED << localStorage, lastSaved >>

\* handleScanFormSubmit, the POST.
SubmitFetch ==
    /\ toast' = NoToast
    /\ isScanning' = TRUE
    /\ scanStep' = 1
    /\ localStorage' = saveScanState(localStorage, SubmitState(TRUE, FALSE))
    /\ lastSaved' = Some(SubmitState(TRUE, FALSE))
    /\ timers' = StepTimers(timers)
    /\ requests' = requests \cup { ScanRequest(runPresses + 1) }
    /\ scanPosts' = scanPosts + 1

\* The "Run Scan" button of the form view: disabled={!a.trim() || !b.trim() || !c.trim()}
RunScanEnabled == ~AnyBlank(scanFormData)

\* handleScanFormSubmit: onClick of "Run Scan", which is disabled while a
\* probe is blank.
handleScanFormSubmit ==
    /\ Interactive
    /\ CurrentView = "form"
    /\ RunScanEnabled
    /\ runPresses < MaxRuns
    /\ IF AnyBlank(scanFormData) THEN SubmitInvalid
       ELSE IF GetItem(AUTH_TOKEN_KEY) = None THEN SubmitUnauthenticated
       ELSE SubmitFetch
    /\ runPresses' = runPresses + 1
    /\ acceptedRuns' = IF ~AnyBlank(scanFormData) /\ GetItem(AUTH_TOKEN_KEY) # None
                       THEN acceptedRuns + 1 ELSE acceptedRuns
    /\ lastEvent' = [op |-> "RunScan", token |-> GetItem(AUTH_TOKEN_KEY) # None,
                     scanFormData |-> scanFormData, requests |-> requests,
                     scanPosts |-> scanPosts, diverged |-> Diverged]
    /\ UNCHANGED << page, scanCompleted, isScanExpanded, scanFormData, scanResults,
                    isResetDialogOpen >>
    /\ UNCHANGED uploadCard
    /\ UNCHANGED downloadCard

\* What the scan POST can come back with: an HTTP response of any status
\* with a body, or a rejected promise (transport failure).
Responses ==
    { [kind |-> "http", status |-> st, body |-> b] :
         st \in {200, 500}, b \in {"Found: 3 emails"} }
    \cup { [kind |-> "http", status |-> 200, body |-> ""] }
    \cup { [kind |-> "error", status |-> 0, body |-> ""] }

\* fetch(...).then((response) => response.text()).then(...): fetch resolves
\* for every HTTP status, so the second then runs with the body text.
Fulfilled(resp) == resp.kind = "http"

\* The object the callbacks hand to saveScanState: the scanFormData of
\* their closure.
CallbackState(r, completed) ==
    [isScanning |-> FALSE, scanCompleted |-> completed,
     isScanExpanded |-> TRUE, scanFormData |-> r.scanFormData]

\* ScanThen with setScanResults(result), without the fallback literal.
ScanThen_NoFallback(r, resp) ==
    /\ IF r.live
       THEN /\ scanResults' = Some(resp.body)
            /\ isScanning' = FALSE
            /\ scanCompleted' = TRUE
            /\ scanStep' = 1
       ELSE UNCHANGED << scanResults, isScanning, scanCompleted, scanStep >>
    /\ localStorage' = saveScanState(localStorage, CallbackState(r, TRUE))
    /\ lastSaved' = Some(CallbackState(r, TRUE))
    /\ toast' = "Scan completed"

\* ScanThen without setIsScanning(false), in memory and in the saved object.
ScanThen_KeepsScanning(r, resp) ==
    /\ IF r.live
       THEN /\ scanResults' = Some(IF resp.body # "" THEN resp.body ELSE "Scan completed")
            /\ scanCompleted' = TRUE
            /\ scanStep' = 1
            /\ UNCHANGED isScanning
       ELSE UNCHANGED << scanResults, isScanning, scanCompleted, scanStep >>
    /\ localStorage' = saveScanState(localStorage,
                                     [CallbackState(r, TRUE) EXCEPT !.isScanning = TRUE])
    /\ lastSaved' = Some([CallbackState(r, TRUE) EXCEPT !.isScanning = TRUE])
    /\ toast' = "Scan completed"

\* .then((result) => { ... })
ScanThen(r, resp) ==
    /\ IF r.live
       THEN /\ scanResults' = Some(IF resp.body # "" THEN resp.body ELSE "Scan completed")
            /\ isScanning' = FALSE
            /\ scanCompleted' = TRUE
            /\ scanStep' = 1
       ELSE UNCHANGED << scanResults, isScanning, scanCompleted, scanStep >>
    /\ localStorage' = saveScanState(localStorage, CallbackState(r, TRUE))
    /\ lastSaved' = Some(CallbackState(r, TRUE))
    /\ toast' = "Scan completed"

\* .catch((error) => { ... })
ScanCatch(r, resp) ==
    /\ IF r.live
       THEN /\ isScanning' = FALSE
            /\ scanStep' = 1
       ELSE UNCHANGED << isScanning, scanStep >>
    /\ localStorage' = saveScanState(localStorage, CallbackState(r, FALSE))
    /\ lastSaved' = Some(CallbackState(r, FALSE))
    /\ toast' = "Scan failed"
    /\ UNCHANGED << scanResults, scanCompleted >>

\* The scan POST r resolves with resp.
ScanResponse(r, resp) ==
    /\ r \in requests
    /\ requests' = requests \ {r}
    /\ IF Fulfilled(resp) THEN ScanThen(r, resp) ELSE ScanCatch(r, resp)
    /\ lastEvent' = [op |-> "ScanResponse", request |-> r, response |-> resp, from |-> Phase]
    /\ UNCHANGED << page, isScanExpanded, scanFormData, isResetDialogOpen, timers,
                    runPresses, acceptedRuns, scanPosts >>
    /\ UNCHANGED uploadCard
    /\ UNCHANGED downloadCard

\* A pending setTimeout callback runs: setScanStep(step). The 5 minute timer
\* of a submit runs after its 2 second timer, so a callback for step 3 can
\* run only when some submit's callback for step 2 already has.
TimerFires(step) ==
    /\ timers[step] > 0
    /\ step = 3 => timers[3] > timers[2]
    /\ timers' = [timers EXCEPT ![step] = @ - 1]
    /\ scanStep' = step
    /\ toast' = NoToast
    /\ lastEvent' = Event("Timer")
    /\ UNCHANGED << page, isScanning, scanCompleted, isScanExpanded, scanFormData, scanResults,
                    isResetDialogOpen, localStorage, requests, history >>
    /\ UNCHANGED uploadCard
    /\ UNCHANGED downloadCard

\* "Re-Run Scan" button of the completed view.
ReRunScan ==
    /\ Interactive
    /\ CurrentView = "completed"
    /\ isScanExpanded' = TRUE
    /\ scanCompleted' = FALSE
    /\ isScanning' = FALSE
    /\ scanStep' = 1
    /\ toast' = NoToast
    /\ lastEvent' = [op |-> "ReRunScan", from |-> Phase, scanFormData |-> scanFormData]
    /\ UNCHANGED << page, scanFormData, scanResults, isResetDialogOpen, localStorage,
                    requests, timers, history >>
    /\ UNCHANGED uploadCard
    /\ UNCHANGED downloadCard

\* ------------------------------------------------------------------------
\* Reset Configuration
\* ------------------------------------------------------------------------

\* resetConfiguration without clearScanState().
resetConfiguration_KeepsRecord ==
    /\ Interactive
    /\ scanResults' = None
    /\ isScanning' = FALSE
    /\ scanCompleted' = FALSE
    /\ scanStep' = 1
    /\ isScanExpanded' = FALSE
    /\ scanFormData' = EmptyForm
    /\ isResetDialogOpen' = FALSE
    /\ toast' = "Configuration reset"
    /\ lastEvent' = [op |-> "Reset", from |-> Phase, diverged |-> Diverged]
    /\ uploadStatus' = "idle"
    /\ isUploading' = FALSE
    /\ uploadedFileUrl' = EmptyStr
    /\ UNCHANGED << page, localStorage, requests, timers, history >>
    /\ UNCHANGED << isUploadModalOpen, wizard, submissions, uploadHistory >>
    /\ UNCHANGED downloadCard

\* resetConfiguration: the "Reset Configuration" button, rendered in every
\* view, opens the AlertDialog and "Yes, Reset" runs the handler. Opening
\* and cancelling the dialog change isResetDialogOpen only, and the handler
\* closes it, so the confirmed reset is one step from a closed dialog to a
\* closed dialog.
resetConfiguration ==
    /\ Interactive
    /\ scanResults' = None
    /\ isScanning' = FALSE
    /\ scanCompleted' = FALSE
    /\ scanStep' = 1
    /\ isScanExpanded' = FALSE
    /\ scanFormData' = EmptyForm
    /\ isResetDialogOpen' = FALSE
    /\ localStorage' = clearScanState(localStorage)
    /\ lastSaved' = None
    /\ toast' = "Configuration reset"
    /\ lastEvent' = [op |-> "Reset", from |-> Phase, diverged |-> Diverged]
    /\ uploadStatus' = "idle"
    /\ isUploading' = FALSE
    /\ uploadedFileUrl' = EmptyStr
    /\ UNCHANGED << page, requests, timers, runPresses, acceptedRuns, scanPosts >>
    /\ UNCHANGED << isUploadModalOpen, wizard, submissions, uploadHistory >>
    /\ UNCHANGED downloadCard

\* ------------------------------------------------------------------------
\* Router and page loads
\* ------------------------------------------------------------------------

\* ReloadPage with the requests of the old document still attached.
ReloadPage_KeepsRequests ==
    /\ Mounted
    /\ RestoreOnMount(localStorage)
    /\ timers' = NoTimers
    /\ toast' = NoToast
    /\ lastEvent' = [op |-> "Reload", from |-> Phase, scanFormData |-> scanFormData,
                     scanResults |-> scanResults]
    /\ submissions' = {}
    /\ UNCHANGED << page, localStorage, requests, history, uploadHistory >>
    /\ downloads' = NoDownloads

\* The browser reloads the page on the Dashboard: the document with its
\* requests and timers is gone, the Dashboard mounts anew.
ReloadPage ==
    /\ Mounted
    /\ RestoreOnMount(localStorage)
    /\ requests' = {}
    /\ timers' = NoTimers
    /\ toast' = NoToast
    /\ lastEvent' = [op |-> "Reload", from |-> Phase, scanFormData |-> scanFormData,
                     scanResults |-> scanResults]
    /\ submissions' = {}
    /\ UNCHANGED << page, localStorage, history, uploadHistory >>
    /\ downloads' = NoDownloads

\* A Sidebar link to another page: the Dashboard unmounts.
NavigateAway ==
    /\ Mounted
    /\ page' = "other"
    /\ InitialMemory
    /\ requests' = Detach(requests)
    /\ timers' = NoTimers
    /\ toast' = NoToast
    /\ lastEvent' = Event("NavigateAway")
    /\ submissions' = Detach(submissions)
    /\ UNCHANGED << localStorage, history, uploadHistory >>
    /\ UNCHANGED downloadCard

\* The Sidebar link "Home": the Dashboard mounts.
NavigateHome ==
    /\ page = "other"
    /\ page' = "dashboard"
    /\ RestoreOnMount(localStorage)
    /\ toast' = NoToast
    /\ lastEvent' = Event("NavigateHome")
    /\ UNCHANGED << localStorage, requests, timers, history, submissions, uploadHistory >>
    /\ UNCHANGED downloadCard

\* Sidebar handleLogout: removes the token and navigates to /login.
handleLogout ==
    /\ page \in {"dashboard", "other"}
    /\ localStorage' = [localStorage EXCEPT ![AUTH_TOKEN_KEY] = None]
    /\ page' = "login"
    /\ InitialMemory
    /\ requests' = Detach(requests)
    /\ timers' = NoTimers
    /\ toast' = NoToast
    /\ lastEvent' = Event("Logout")
    /\ submissions' = Detach(submissions)
    /\ UNCHANGED << history, uploadHistory >>
    /\ UNCHANGED downloadCard

\* Login handleLogin on a 2xx answer: stores the token when the answer is
\* JSON, then loads "/" (window.location.href), which mounts the Dashboard
\* in a new document.
handleLogin(isJson) ==
    /\ page = "login"
    /\ LET store == IF isJson
                    THEN [localStorage EXCEPT ![AUTH_TOKEN_KEY] = Some("authenticated")]
                    ELSE localStorage
       IN  /\ localStorage' = store
           /\ RestoreOnMount(store)
    /\ page' = "dashboard"
    /\ requests' = {}
    /\ timers' = NoTimers
    /\ toast' = "Login successful"
    /\ lastEvent' = Event("Login")
    /\ submissions' = {}
    /\ UNCHANGED << history, uploadHistory >>
    /\ downloads' = NoDownloads

\* ------------------------------------------------------------------------
\* Upload card and credential wizard (src/src/components/UploadModal.tsx)
\* ------------------------------------------------------------------------

CloudVendors == {"aws", "azure", "gcp"}

\* getDatastoresForVendor(vendor): the ids of the datastore buttons, in order.
getDatastoresForVendor(vendor) ==
    IF vendor = None THEN << >>
    ELSE CASE vendor[1] = "aws" -> << "aws-s3", "aws-rds" >>
           [] vendor[1] = "azure" -> << "azure-blob", "azure-sql" >>
           [] vendor[1] = "gcp" -> << "gcp-storage", "gcp-bigquery" >>
           [] OTHER -> << >>

\* getRequiredFields with the case of aws-rds missing.
getRequiredFields_NoRds(datastore) ==
    IF datastore = None THEN << >>
    ELSE CASE datastore[1] = "aws-s3" -> << "AWS_BUCKET_NAME" >>
           [] datastore[1] = "azure-blob" ->
                << "AZURE_STORAGE_ACCOUNT_NAME", "AZURE_STORAGE_ACCOUNT_KEY",
                   "AZURE_CONTAINER_NAME" >>
           [] datastore[1] = "azure-sql" ->
                << "AZURE_SQL_SERVER", "AZURE_SQL_DATABASE", "AZURE_SQL_USERNAME",
                   "AZURE_SQL_PASSWORD" >>
           [] datastore[1] = "gcp-storage" ->
                << "GCP_PROJECT_ID", "GCP_BUCKET_NAME", "GCP_SERVICE_ACCOUNT_KEY" >>
           [] datastore[1] = "gcp-bigquery" ->
                << "GCP_PROJECT_ID", "GCP_DATASET_ID", "GCP_TABLE_ID",
                   "GCP_SERVICE_ACCOUNT_KEY" >>
           [] OTHER -> << >>

\* getRequiredFields(datastore): the keys of the field list, in order.
getRequiredFields(datastore) ==
    IF datastore = None THEN << >>
    ELSE CASE datastore[1] = "aws-s3" -> << "AWS_BUCKET_NAME" >>
           [] datastore[1] = "aws-rds" ->
                << "RDS_HOST", "RDS_PORT", "RDS_USERNAME", "RDS_PASSWORD", "RDS_DB_NAME" >>
           [] datastore[1] = "azure-blob" ->
                << "AZURE_STORAGE_ACCOUNT_NAME", "AZURE_STORAGE_ACCOUNT_KEY",
                   "AZURE_CONTAINER_NAME" >>
           [] datastore[1] = "azure-sql" ->
                << "AZURE_SQL_SERVER", "AZURE_SQL_DATABASE", "AZURE_SQL_USERNAME",
                   "AZURE_SQL_PASSWORD" >>
           [] datastore[1] = "gcp-storage" ->
                << "GCP_PROJECT_ID", "GCP_BUCKET_NAME", "GCP_SERVICE_ACCOUNT_KEY" >>
           [] datastore[1] = "gcp-bigquery" ->
                << "GCP_PROJECT_ID", "GCP_DATASET_ID", "GCP_TABLE_ID",
                   "GCP_SERVICE_ACCOUNT_KEY" >>
           [] OTHER -> << >>

\* The elements of a list.
Range(seq) == { seq[i] : i \in 1..Len(seq) }

\* The texts a user types into a credential field. The first field of a
\* datastore takes a text of white space and a value with white space before
\* it; the other fields take one value.
CredentialValues(key) ==
    IF key \in {"AWS_BUCKET_NAME", "RDS_HOST", "AZURE_STORAGE_ACCOUNT_NAME",
                "AZURE_SQL_SERVER", "GCP_PROJECT_ID"}
    THEN { << " " >>, << " ", "m" >> }
    ELSE { << "v" >> }

\* credentials[key]?.trim() : undefined for a key the bundle does not have,
\* and undefined and the empty string are the falsy results.
TrimmedCredential(bundle, key) ==
    IF key \in DOMAIN bundle THEN Trim(bundle[key]) ELSE EmptyStr

\* isFormValid without the trim.
isFormValid_NoTrim ==
    \A key \in Range(getRequiredFields(selectedDatastore)) :
        key \in DOMAIN credentials /\ credentials[key] # EmptyStr

\* isFormValid: fields.every(field => credentials[field.key]?.trim())
isFormValid ==
    \A key \in Range(getRequiredFields(selectedDatastore)) :
        TrimmedCredential(credentials, key) # EmptyStr

\* The step the dialog renders: the conditional on cloudVendor and
\* selectedDatastore.
WizardStep ==
    IF cloudVendor = None THEN "vendor"
    ELSE IF selectedDatastore = None THEN "datastore"
    ELSE "fields"

\* The dialog is shown.
WizardOpen == Mounted /\ isUploadModalOpen

\* "Save & Upload" that is disabled only while uploading.
SaveUploadEnabled_Unchecked == ~isUploading

\* "Save & Upload": disabled={!isFormValid() || isUploading}
SaveUploadEnabled == isFormValid /\ ~isUploading

\* The wizard's state as an event remembers it.
WizardSnapshot ==
    [cloudVendor |-> cloudVendor, selectedDatastore |-> selectedDatastore,
     credentials |-> credentials]

\* "Upload" button of the card: onClick={() => setIsUploadModalOpen(true)},
\* disabled={isUploading}
OpenUploadModal ==
    /\ Interactive
    /\ ~isUploadModalOpen
    /\ ~isUploading
    /\ isUploadModalOpen' = TRUE
    /\ toast' = NoToast
    /\ lastEvent' = Event("OpenUploadModal")
    /\ UNCHANGED << page, memory, localStorage, requests, timers, history >>
    /\ UNCHANGED << wizard, isUploading, uploadStatus, uploadedFileUrl, submissions,
                    uploadHistory >>
    /\ UNCHANGED downloadCard

\* The state no handler of the UploadModal touches.
WizardFrame ==
    /\ toast' = NoToast
    /\ UNCHANGED << page, memory, localStorage, requests, timers, history >>
    /\ UNCHANGED << isUploading, uploadStatus, uploadedFileUrl, submissions, uploadHistory >>
    /\ UNCHANGED downloadCard

\* handleVendorSelect(vendor): one of the three vendor buttons
handleVendorSelect(vendor) ==
    /\ WizardOpen
    /\ WizardStep = "vendor"
    /\ cloudVendor' = Some(vendor)
    /\ lastEvent' = Event("VendorSelect")
    /\ WizardFrame
    /\ UNCHANGED << isUploadModalOpen, selectedDatastore, credentials >>

\* handleDatastoreSelect(datastore): one of the vendor's datastore buttons
handleDatastoreSelect(datastore) ==
    /\ WizardOpen
    /\ WizardStep = "datastore"
    /\ datastore \in Range(getDatastoresForVendor(cloudVendor))
    /\ selectedDatastore' = Some(datastore)
    /\ credentials' = << >>
    /\ lastEvent' = Event("DatastoreSelect")
    /\ WizardFrame
    /\ UNCHANGED << isUploadModalOpen, cloudVendor >>

\* handleBackToVendor: "Back" of the datastore step, disabled={isUploading}
handleBackToVendor ==
    /\ WizardOpen
    /\ WizardStep = "datastore"
    /\ ~isUploading
    /\ cloudVendor' = None
    /\ selectedDatastore' = None
    /\ credentials' = << >>
    /\ lastEvent' = Event("BackToVendor")
    /\ WizardFrame
    /\ UNCHANGED isUploadModalOpen

\* handleBackToDatastore that leaves the bundle as it is.
handleBackToDatastore_KeepsBundle ==
    /\ WizardOpen
    /\ WizardStep = "fields"
    /\ ~isUploading
    /\ selectedDatastore' = None
    /\ lastEvent' = Event("BackToDatastore")
    /\ WizardFrame
    /\ UNCHANGED << isUploadModalOpen, cloudVendor, credentials >>

\* handleBackToDatastore with setCloudVendor(null) in place of
\* setSelectedDatastore(null).
handleBackToDatastore_ClearsVendor ==
    /\ WizardOpen
    /\ WizardStep = "fields"
    /\ ~isUploading
    /\ cloudVendor' = None
    /\ credentials' = << >>
    /\ lastEvent' = Event("BackToDatastore")
    /\ WizardFrame
    /\ UNCHANGED << isUploadModalOpen, selectedDatastore >>

\* handleBackToDatastore: "Back" of the field step, disabled={isUploading}
handleBackToDatastore ==
    /\ WizardOpen
    /\ WizardStep = "fields"
    /\ ~isUploading
    /\ selectedDatastore' = None
    /\ credentials' = << >>
    /\ lastEvent' = Event("BackToDatastore")
    /\ WizardFrame
    /\ UNCHANGED << isUploadModalOpen, cloudVendor >>

\* setCredentials(prev => ({ ...prev, [field]: value }))
WithCredential(prev, field, value) ==
    [key \in DOMAIN prev \cup {field} |-> IF key = field THEN value ELSE prev[key]]

\* handleCredentialChange(field, value): onChange of one of the Inputs
\* rendered for the required fields
handleCredentialChange(field, value) ==
    /\ WizardOpen
    /\ WizardStep = "fields"
    /\ field \in Range(getRequiredFields(selectedDatastore))
    /\ field \in DOMAIN credentials => credentials[field] # value
    /\ credentials' = WithCredential(credentials, field, value)
    /\ lastEvent' = Event("CredentialChange")
    /\ WizardFrame
    /\ UNCHANGED << isUploadModalOpen, cloudVendor, selectedDatastore >>

\* handleCancel: "Cancel" of the vendor step
handleCancel ==
    /\ WizardOpen
    /\ WizardStep = "vendor"
    /\ cloudVendor' = None
    /\ selectedDatastore' = None
    /\ credentials' = << >>
    /\ isUploadModalOpen' = FALSE
    /\ lastEvent' = Event("Cancel")
    /\ WizardFrame

\* The footer of the dialog renders "Cancel" only in the branch without a
\* vendor; the other two branches render "Back" (and "Save & Upload").
CancelAvailable == cloudVendor = None

\* The run of UploadModal.handleUpload that press number n starts: the
\* selectedDatastore and credentials of the render it was pressed in, and the
\* trimmed bucket name.
Submission(n, stage) ==
    [id |-> n,
     stage |-> stage,
     provider |-> selectedDatastore[1],
     credentials |-> credentials,
     bucket_name |-> TrimmedCredential(credentials, "AWS_BUCKET_NAME"),
     live |-> TRUE]

\* handleUpload, first exit: if (!selectedDatastore || isUploading) return
UploadIgnored ==
    /\ toast' = NoToast
    /\ UNCHANGED << isUploading, uploadStatus, submissions, preStorePosts, uploadPosts >>

\* handleUpload, second exit: aws-s3 with a blank bucket name
UploadBucketMissing ==
    /\ toast' = "Bucket name required"
    /\ UNCHANGED << isUploading, uploadStatus, submissions, preStorePosts, uploadPosts >>

\* handleUpload for aws-s3: the POST to /store-s3-bucketname with
\* { bucket_name: bucketName }, and the wait for its answer.
PreStoreFetch ==
    /\ submissions' = submissions \cup { Submission(submitPresses + 1, "prestore") }
    /\ preStorePosts' = preStorePosts + 1
    /\ toast' = NoToast
    /\ UNCHANGED << isUploading, uploadStatus, uploadPosts >>

\* Dashboard.handleUpload(provider, credentials) up to its fetch, called as
\* onUpload: setIsUploading(true), setUploadStatus('idle') and the POST to
\* /upload-env-bucket with { provider, credentials }. The setters reach the
\* Dashboard only while it is the one that rendered the dialog.
onUpload(live) ==
    /\ IF live
       THEN /\ isUploading' = TRUE
            /\ uploadStatus' = "idle"
       ELSE UNCHANGED << isUploading, uploadStatus >>
    /\ uploadPosts' = uploadPosts + 1

\* handleUpload for aws-s3 with the pre-store call left out.
handleUploadBody_SkipsPreStore ==
    IF selectedDatastore = None \/ isUploading THEN UploadIgnored
    ELSE /\ submissions' = submissions \cup { Submission(submitPresses + 1, "upload") }
         /\ onUpload(TRUE)
         /\ toast' = NoToast
         /\ UNCHANGED preStorePosts

\* The body of UploadModal.handleUpload up to its first await.
handleUploadBody ==
    IF selectedDatastore = None \/ isUploading THEN UploadIgnored
    ELSE IF selectedDatastore = Some("aws-s3")
    THEN IF TrimmedCredential(credentials, "AWS_BUCKET_NAME") = EmptyStr
         THEN UploadBucketMissing
         ELSE PreStoreFetch
    ELSE /\ submissions' = submissions \cup { Submission(submitPresses + 1, "upload") }
         /\ onUpload(TRUE)
         /\ toast' = NoToast
         /\ UNCHANGED preStorePosts

\* UploadModal.handleUpload: onClick of "Save & Upload"
handleUpload ==
    /\ WizardOpen
    /\ WizardStep = "fields"
    /\ SaveUploadEnabled
    /\ submitPresses < MaxSubmits
    /\ handleUploadBody
    /\ submitPresses' = submitPresses + 1
    /\ lastEvent' = [op |-> "SaveUpload", id |-> submitPresses + 1, before |-> WizardSnapshot,
                     preStorePosts |-> preStorePosts, uploadPosts |-> uploadPosts]
    /\ UNCHANGED << page, memory, localStorage, requests, timers, history >>
    /\ UNCHANGED << wizard, isUploadModalOpen, uploadedFileUrl >>
    /\ UNCHANGED downloadCard

\* What the POST to /store-s3-bucketname can come back with: a 2xx answer, an
\* answer of another status with or without a text, or a rejected promise.
PreStoreResponses ==
    { [kind |-> "http", status |-> 200, text |-> ""],
      [kind |-> "http", status |-> 500, text |-> "no such bucket"],
      [kind |-> "http", status |-> 500, text |-> ""],
      [kind |-> "error", status |-> 0, text |-> ""] }

\* response.ok
ResponseOk(resp) == resp.kind = "http" /\ resp.status \in 200..299

\* PreStoreFailed with the return left out of the catch.
PreStoreFailed_GoesOn(sub) ==
    /\ submissions' = (submissions \ {sub}) \cup { [sub EXCEPT !.stage = "upload"] }
    /\ onUpload(sub.live)
    /\ toast' = "Error saving bucket name"

\* The catch of the pre-store call: the error toast and the return.
PreStoreFailed(sub) ==
    /\ submissions' = submissions \ {sub}
    /\ toast' = "Error saving bucket name"
    /\ UNCHANGED << isUploading, uploadStatus, uploadPosts >>

\* The pre-store call went through: the toast, then
\* await onUpload(selectedDatastore, credentials) with the values of the
\* render the button was pressed in.
PreStoreSaved(sub) ==
    /\ submissions' = (submissions \ {sub}) \cup { [sub EXCEPT !.stage = "upload"] }
    /\ onUpload(sub.live)
    /\ toast' = "Bucket name saved"

\* The POST to /store-s3-bucketname of the run sub resolves with resp.
PreStoreResponse(sub, resp) ==
    /\ sub \in submissions
    /\ sub.stage = "prestore"
    /\ IF ResponseOk(resp) THEN PreStoreSaved(sub) ELSE PreStoreFailed(sub)
    /\ lastEvent' = [op |-> "PreStoreResponse", submission |-> sub, response |-> resp,
                     before |-> WizardSnapshot, open |-> isUploadModalOpen,
                     uploadPosts |-> uploadPosts]
    /\ UNCHANGED << page, memory, localStorage, requests, timers, history >>
    /\ UNCHANGED << wizard, isUploadModalOpen, uploadedFileUrl, submitPresses, preStorePosts >>
    /\ UNCHANGED downloadCard

\* What the POST to /upload-env-bucket can come back with: a status and a
\* body that is JSON or not, or a rejected promise.
UploadResponses ==
    { [kind |-> "http", status |-> st, json |-> j] : st \in {200, 500}, j \in BOOLEAN }
    \cup { [kind |-> "error", status |-> 0, json |-> FALSE] }

\* UploadSucceeded without the await response.json() that throws on a body
\* that is no JSON.
UploadSucceeded_StatusOnly(resp) == ResponseOk(resp)

\* await response.json() returns and response.ok holds.
UploadSucceeded(resp) == resp.kind = "http" /\ resp.json /\ ResponseOk(resp)

\* result.file_url of the answers of this model
FileUrl == << "u" >>

\* Dashboard.handleUpload, if (response.ok) { ... }
UploadThen ==
    /\ uploadStatus' = "success"
    /\ uploadedFileUrl' = FileUrl
    /\ isUploadModalOpen' = FALSE

\* UploadCatch that closes the dialog as the success branch does.
UploadCatch_ClosesDialog ==
    /\ uploadStatus' = "error"
    /\ isUploadModalOpen' = FALSE
    /\ UNCHANGED uploadedFileUrl

\* Dashboard.handleUpload, catch (error) { ... }
UploadCatch ==
    /\ uploadStatus' = "error"
    /\ UNCHANGED << uploadedFileUrl, isUploadModalOpen >>

\* Dashboard.handleUpload after its fetch: the success branch or the catch,
\* then the finally.
UploadResponse(sub, resp) ==
    /\ sub \in submissions
    /\ sub.stage = "upload"
    /\ submissions' = submissions \ {sub}
    /\ IF sub.live
       THEN /\ IF UploadSucceeded(resp) THEN UploadThen ELSE UploadCatch
            /\ isUploading' = FALSE
       ELSE UNCHANGED << uploadStatus, uploadedFileUrl, isUploadModalOpen, isUploading >>
    /\ toast' = IF UploadSucceeded(resp) THEN "Upload successful" ELSE "Upload failed"
    /\ lastEvent' = [op |-> "UploadResponse", submission |-> sub, response |-> resp,
                     before |-> WizardSnapshot, open |-> isUploadModalOpen]
    /\ UNCHANGED << page, memory, localStorage, requests, timers, history >>
    /\ UNCHANGED << wizard, uploadHistory >>
    /\ UNCHANGED downloadCard

\* ------------------------------------------------------------------------
\* Specification
\* ------------------------------------------------------------------------

Next ==
    \/ StartScan
    \/ \E field \in FormFields : \E value \in ProbeValues(field) : handleScanFormChange(field, value)
    \/ handleScanFormSubmit
    \/ \E r \in requests, resp \in Responses : ScanResponse(r, resp)
    \/ \E step \in {2, 3} : TimerFires(step)
    \/ ReRunScan
    \/ resetConfiguration
    \/ ReloadPage
    \/ NavigateAway
    \/ NavigateHome
    \/ handleLogout
    \/ \E isJson \in BOOLEAN : handleLogin(isJson)

Spec == Init /\ [][Next]_vars

\* The upload card on its own: a signed-in session with no scan record, and
\* the steps of the card and of the UploadModal.
WizardInit ==
    /\ Init
    /\ GetItem(AUTH_TOKEN_KEY) # None
    /\ GetItem(SCAN_STATE_KEY) = None

WizardNext ==
    \/ OpenUploadModal
    \/ \E vendor \in CloudVendors : handleVendorSelect(vendor)
    \/ \E datastore \in Range(getDatastoresForVendor(cloudVendor)) :
          handleDatastoreSelect(datastore)
    \/ handleBackToVendor
    \/ handleBackToDatastore
    \/ \E field \in Range(getRequiredFields(selectedDatastore)) :
          \E value \in CredentialValues(field) : handleCredentialChange(field, value)
    \/ handleCancel
    \/ handleUpload
    \/ \E sub \in submissions, resp \in PreStoreResponses : PreStoreResponse(sub, resp)
    \/ \E sub \in submissions, resp \in UploadResponses : UploadResponse(sub, resp)

WizardSpec == WizardInit /\ [][WizardNext]_vars

\* ------------------------------------------------------------------------
\* Downloads of the completed view
\* ------------------------------------------------------------------------

\* Download GETs in flight.
InFlight == downloads["report"] + downloads["artifacts"]

\* What a download button leaves alone: everything but the GET it sends.
DownloadFrame ==
    /\ toast' = NoToast
    /\ UNCHANGED << page, memory, localStorage, requests, timers, history >>
    /\ UNCHANGED uploadCard

\* One more GET of the kind in flight.
Fetch(kind) == [downloads EXCEPT ![kind] = @ + 1]

\* downloadReport that fetches the artifacts as well.
downloadReport_AlsoArtifacts ==
    /\ Interactive
    /\ CurrentView = "completed"
    /\ InFlight < MaxDownloads
    /\ downloads' = [kind \in DOMAIN downloads |-> downloads[kind] + 1]
    /\ lastEvent' = [op |-> "Download", kind |-> "report", from |-> Phase]
    /\ DownloadFrame

\* downloadReport up to its fetch: onClick of "Download Report", which the
\* completed view renders.
downloadReport ==
    /\ Interactive
    /\ CurrentView = "completed"
    /\ InFlight < MaxDownloads
    /\ downloads' = Fetch("report")
    /\ lastEvent' = [op |-> "Download", kind |-> "report", from |-> Phase]
    /\ DownloadFrame

\* downloadArtifacts up to its fetch: onClick of "Download Artifacts".
downloadArtifacts ==
    /\ Interactive
    /\ CurrentView = "completed"
    /\ InFlight < MaxDownloads
    /\ downloads' = Fetch("artifacts")
    /\ lastEvent' = [op |-> "Download", kind |-> "artifacts", from |-> Phase]
    /\ DownloadFrame

\* What a download GET can come back with: an HTTP response of some status,
\* or a rejected promise.
DownloadResponses ==
    { [kind |-> "http", status |-> st] : st \in {200, 500} }
    \cup { [kind |-> "error", status |-> 0] }

\* The notification of a download handler after its fetch: downloadReport
\* saves the file or logs the error to the console, downloadArtifacts shows
\* a toast in both branches.
DownloadToast(kind, resp) ==
    IF kind = "report" THEN NoToast
    ELSE IF ResponseOk(resp) THEN "Artifacts downloaded"
    ELSE "Download failed"

\* A download GET of the kind resolves with resp: if (!res.ok) throw, else
\* the blob is saved through a temporary <a download>; then the catch.
DownloadResponse(kind, resp) ==
    /\ downloads[kind] > 0
    /\ downloads' = [downloads EXCEPT ![kind] = @ - 1]
    /\ toast' = DownloadToast(kind, resp)
    /\ lastEvent' = [op |-> "DownloadResponse", kind |-> kind, response |-> resp,
                     saved |-> ResponseOk(resp)]
    /\ UNCHANGED << page, memory, localStorage, requests, timers, history >>
    /\ UNCHANGED uploadCard

\* The scan card with its downloads, on its own: a signed-in session with
\* no scan record that stays on the Dashboard. The setTimeout callbacks,
\* which only move the step indicator of the progress view, do not run.
DownloadInit ==
    /\ Init
    /\ GetItem(AUTH_TOKEN_KEY) # None
    /\ GetItem(SCAN_STATE_KEY) = None

DownloadNext ==
    \/ StartScan
    \/ \E field \in FormFields : \E value \in ProbeValues(field) : handleScanFormChange(field, value)
    \/ handleScanFormSubmit
    \/ \E r \in requests, resp \in Responses : ScanResponse(r, resp)
    \/ ReRunScan
    \/ resetConfiguration
    \/ ReloadPage
    \/ downloadReport
    \/ downloadArtifacts
    \/ \E kind \in DOMAIN downloads, resp \in DownloadResponses :
          DownloadResponse(kind, resp)

DownloadSpec == DownloadInit /\ [][DownloadNext]_vars

\* The probe texts of a user who submits two different definitions: those of
\* ProbeValues and a second inventory command.
LateProbeValues(field) ==
    ProbeValues(field) \cup (IF field = "clientResultCurl" THEN { << "d" >> } ELSE {})

\* The scan card of a signed-in session with no scan record that stays on
\* the Dashboard and is not reloaded, with a second definition to submit.
\* The setTimeout callbacks do not run.
LateInit ==
    /\ Init
    /\ GetItem(AUTH_TOKEN_KEY) # None
    /\ GetItem(SCAN_STATE_KEY) = None

LateNext ==
    \/ StartScan
    \/ \E field \in FormFields : \E value \in LateProbeValues(field) :
          handleScanFormChange(field, value)
    \/ handleScanFormSubmit
    \/ \E r \in requests, resp \in Responses : ScanResponse(r, resp)
    \/ ReRunScan
    \/ resetConfiguration

LateSpec == LateInit /\ [][LateNext]_vars

\* ------------------------------------------------------------------------
\* The two submit handlers over every form they can be pressed on
\* ------------------------------------------------------------------------

\* Every scan form that can be typed.
Forms ==
    { [bearerTokenCurl |-> a, scanTriggerCurl |-> b, clientResultCurl |-> c] :
         a \in ProbeValues("bearerTokenCurl"), b \in ProbeValues("scanTriggerCurl"),
         c \in ProbeValues("clientResultCurl") }

\* Every bundle that can be typed into the fields named by keys.
BundlesOver(keys) ==
    IF keys = {} THEN { << >> }
    ELSE { b \in [keys -> UNION { CredentialValues(key) : key \in keys }] :
              \A key \in keys : b[key] \in CredentialValues(key) }

\* Every bundle that can be typed in the field step of the datastore.
Bundles(datastore) ==
    UNION { BundlesOver(keys) : keys \in SUBSET Range(getRequiredFields(Some(datastore))) }

\* The wizard in the field step of some datastore with some bundle typed.
FieldStepSnapshots ==
    UNION { { [cloudVendor |-> Some(vendor), selectedDatastore |-> Some(datastore),
               credentials |-> bundle] : bundle \in Bundles(datastore) } :
            << vendor, datastore >> \in
               { << v, d >> \in CloudVendors \X UNION { Range(getDatastoresForVendor(Some(v))) :
                                                        v \in CloudVendors } :
                    d \in Range(getDatastoresForVendor(Some(v))) } }

\* The wizard closed after Cancel, or never opened.
ClosedSnapshot == [cloudVendor |-> None, selectedDatastore |-> None, credentials |-> << >>]

\* The record handleScanFormChange saved for a form typed in the form view
\* (none while nothing was typed).
TypedState(form) ==
    [isScanning |-> FALSE, scanCompleted |-> FALSE, isScanExpanded |-> TRUE,
     scanFormData |-> form]

\* A signed-in or signed-out session on the Dashboard with the scan form
\* open and some probes typed, and the upload dialog either closed or open
\* in the field step with some bundle typed.
SubmitInit ==
    \E form \in Forms, tok \in {None, Some("authenticated")}, open \in BOOLEAN :
    \E snapshot \in (IF open THEN FieldStepSnapshots ELSE { ClosedSnapshot }) :
        /\ page = "dashboard"
        /\ isScanning = FALSE
        /\ scanCompleted = FALSE
        /\ isScanExpanded = TRUE
        /\ scanStep = 1
        /\ scanFormData = form
        /\ scanResults = None
        /\ isResetDialogOpen = FALSE
        /\ localStorage = [k \in {SCAN_STATE_KEY, AUTH_TOKEN_KEY} |->
                             IF k = AUTH_TOKEN_KEY THEN tok
                             ELSE IF form = EmptyForm THEN None
                             ELSE Some(JSONStringify(TypedState(form)))]
        /\ requests = {}
        /\ timers = NoTimers
        /\ toast = NoToast
        /\ lastEvent = Event("Init")
        /\ lastSaved = IF form = EmptyForm THEN None ELSE Some(TypedState(form))
        /\ runPresses = 0
        /\ acceptedRuns = 0
        /\ scanPosts = 0
        /\ isUploadModalOpen = open
        /\ isUploading = FALSE
        /\ uploadStatus = "idle"
        /\ uploadedFileUrl = EmptyStr
        /\ cloudVendor = snapshot.cloudVendor
        /\ selectedDatastore = snapshot.selectedDatastore
        /\ credentials = snapshot.credentials
        /\ submissions = {}
        /\ submitPresses = 0
        /\ preStorePosts = 0
        /\ uploadPosts = 0
        /\ downloads = NoDownloads

SubmitNext ==
    \/ handleScanFormSubmit
    \/ \E r \in requests, resp \in Responses : ScanResponse(r, resp)
    \/ handleUpload
    \/ \E sub \in submissions, resp \in PreStoreResponses : PreStoreResponse(sub, resp)
    \/ \E sub \in submissions, resp \in UploadResponses : UploadResponse(sub, resp)

SubmitSpec == SubmitInit /\ [][SubmitNext]_vars

\* ------------------------------------------------------------------------
\* Type invariant
\* ------------------------------------------------------------------------

TypeOK ==
    /\ page \in {"dashboard", "other", "login"}
    /\ isScanning \in BOOLEAN /\ scanCompleted \in BOOLEAN /\ isScanExpanded \in BOOLEAN
    /\ scanStep \in 1..3
    /\ \A f \in FormFields : scanFormData[f] \in LateProbeValues(f)
    /\ Len(scanResults) <= 1
    /\ runPresses \in 0..MaxRuns
    /\ isUploadModalOpen \in BOOLEAN /\ isUploading \in BOOLEAN
    /\ uploadStatus \in {"idle", "success", "error"}
    /\ cloudVendor \in {None} \cup { Some(v) : v \in CloudVendors }
    /\ Len(selectedDatastore) <= 1
    /\ \A key \in DOMAIN credentials : credentials[key] \in CredentialValues(key)
    /\ submitPresses \in 0..MaxSubmits
    /\ InFlight \in 0..MaxDownloads
    /\ \A kind \in DOMAIN downloads : downloads[kind] \in 0..MaxDownloads


\* ------------------------------------------------------------------------
\* Properties
\* ------------------------------------------------------------------------

\* The last step was the callback of a scan POST.
Responded == lastEvent.op = "ScanResponse"

\* The scan POST failed: a transport failure or a status outside 2xx.
FailedResponse(resp) == resp.kind = "error" \/ resp.status \notin 200..299

\* The scan POST succeeded: a 2xx status.
SucceededResponse(resp) == resp.kind = "http" /\ resp.status \in 200..299

\* C1: the number of scan POSTs issued equals the number of accepted
\* "Run Scan" presses (three non-blank probes and a token) in every reachable
\* state: no reload, mount, keystroke, Start, Re-run, Reset, callback or timer
\* issues a request, and nothing is retried.
C1_OnePostPerAcceptedRun ==
    /\ scanPosts = acceptedRuns
    /\ Cardinality(requests) <= scanPosts

C1_Witness ==
    /\ acceptedRuns = 1 /\ runPresses = 2
    /\ lastEvent.op = "Reload" /\ lastEvent.from = "Running"

\* C2: after the callback of a scan POST that failed (non-2xx status or
\* transport failure) the workflow is not Completed: scanCompleted is false,
\* scanResults is null and the persisted record has isScanning = false and
\* scanCompleted = false.
C2_FailureNeverCompletes ==
    (Responded /\ lastEvent.request.live /\ FailedResponse(lastEvent.response))
        => /\ ~scanCompleted
           /\ scanResults = None
           /\ ~StoredFlags(localStorage).isScanning
           /\ ~StoredFlags(localStorage).scanCompleted

\* C3: after a scan failed the workflow shows the form (Configuring), and
\* the probes in memory and in the persisted record are the ones submitted
\* with the failed request.
C3_FailureKeepsDefinition ==
    (Responded /\ lastEvent.request.live /\ FailedResponse(lastEvent.response))
        => /\ Phase = "Configuring"
           /\ scanFormData = lastEvent.request.scanFormData
           /\ StoredForm = lastEvent.request.scanFormData

\* C4: a press of "Run Scan" with three non-blank probes and no authToken
\* in storage leaves the phase at Configuring in memory and in the persisted
\* record, leaves the definition as it was, emits the "Not authenticated"
\* notification and sends nothing.
C4_NoTokenRejected ==
    (lastEvent.op = "RunScan" /\ ~lastEvent.token)
        => /\ Phase = "Configuring"
           /\ StoredPhase = "Configuring"
           /\ scanFormData = lastEvent.scanFormData
           /\ StoredForm = lastEvent.scanFormData
           /\ toast = "Not authenticated"
           /\ requests = lastEvent.requests
           /\ scanPosts = lastEvent.scanPosts

C4_Witness ==
    /\ lastEvent.op = "RunScan" /\ ~lastEvent.token
    /\ toast = "Not authenticated"
    /\ Phase = "Configuring"

C6_PersistedAfterEveryTransition ==
    (\/ lastEvent.op \in {"StartScan", "ReRunScan", "Reset"}
     \/ lastEvent.op = "RunScan" /\ lastEvent.token
     \/ Responded /\ lastEvent.request.live)
        => StoredPhase = Phase

\* C7: after every keystroke, Run and Reset the scan state in memory and the
\* persisted record agree on phase and definition, whatever they were before:
\* a divergence does not survive the next of these actions.
C7_NextActionResyncs ==
    lastEvent.op \in {"Keystroke", "RunScan", "Reset"} => InSync

C7_Witness ==
    /\ lastEvent.op = "Keystroke" /\ lastEvent.diverged
    /\ InSync
    /\ acceptedRuns >= 1

\* C8: whatever the phase the confirmed reset is taken from, the state after
\* it has three empty probes, scanResults null, no persisted record and the
\* collapsed Idle view.
C8_ResetFromAnyPhase ==
    lastEvent.op = "Reset"
        => /\ lastEvent.from \in {"Idle", "Configuring", "Running", "Completed"}
           /\ scanFormData = EmptyForm
           /\ scanResults = None
           /\ GetItem(SCAN_STATE_KEY) = None
           /\ Phase = "Idle"
           /\ ~isScanning /\ ~scanCompleted /\ ~isScanExpanded

C8_Witness ==
    /\ lastEvent.op = "Reset" /\ lastEvent.from = "Running"
    /\ requests # {}
    /\ GetItem(SCAN_STATE_KEY) = None

\* C9: Re-run is taken from Completed only and leads to Configuring with the
\* probes retained and scanResults cleared to null.
C9_ReRunClearsResult ==
    lastEvent.op = "ReRunScan"
        => /\ lastEvent.from = "Completed"
           /\ Phase = "Configuring"
           /\ scanFormData = lastEvent.scanFormData
           /\ scanResults = None

\* The two download buttons are rendered: the completed view.
DownloadsAvailable == Mounted /\ CurrentView = "completed"

\* What a successful callback leaves behind, in memory and in the store.
CompletedWith(r, resp) ==
    /\ Phase = "Completed"
    /\ scanResults = Some(IF resp.body = "" THEN "Scan completed" ELSE resp.body)
    /\ DownloadsAvailable
    /\ StoredFlags(localStorage).scanCompleted
    /\ StoredForm = r.scanFormData

ParkedRunning ==
    /\ requests = {}
    /\ lastSaved # None /\ lastSaved[1].isScanning
    /\ Mounted => Phase = "Running"

C12_AtMostOneInFlight == Cardinality(requests) <= 1

\* C13: the persisted record carries the result summary: a reload in
\* Completed restores Completed with the scanResults that were in memory
\* before it.
C13_ReloadRestoresResult ==
    (lastEvent.op = "Reload" /\ lastEvent.from = "Completed")
        => /\ Phase = "Completed"
           /\ scanResults = lastEvent.scanResults

\* C14: whatever the store holds, loadScanState after clearScanState returns
\* null, and a mount that finds no record shows the Idle view with three
\* empty probes.
C14_ClearThenLoad ==
    /\ loadScanState(clearScanState(localStorage)) = JNull
    /\ (lastEvent.op \in {"Init", "Reload", "NavigateHome", "Login"}
           /\ GetItem(SCAN_STATE_KEY) = None)
          => /\ Phase = "Idle"
             /\ scanFormData = EmptyForm

C14_Witness ==
    /\ lastEvent.op = "Reload"
    /\ lastEvent.from = "Configuring"
    /\ GetItem(SCAN_STATE_KEY) = None
    /\ runPresses >= 1
    /\ Phase = "Idle"

\* The record in the store is a text that is no JSON value.
CorruptRecord ==
    /\ GetItem(SCAN_STATE_KEY) # None
    /\ GetItem(SCAN_STATE_KEY)[1] \in CorruptRecords

C16_KeystrokePersisted ==
    /\ lastEvent.op = "Keystroke" => StoredForm = scanFormData
    /\ (lastEvent.op = "Reload" /\ lastEvent.from = "Configuring")
          => scanFormData = lastEvent.scanFormData

\* Every probe is non-empty after trimming.
AllFilled(form) == \A f \in FormFields : Trim(form[f]) # EmptyStr

\* C17: in the form view "Run Scan" is enabled exactly when the three
\* probes are non-empty after trimming; every press that is taken, every
\* request sent and every Running phase has three such probes.
C17_RunNeedsThreeProbes ==
    /\ (Mounted /\ CurrentView = "form") => (RunScanEnabled <=> AllFilled(scanFormData))
    /\ lastEvent.op = "RunScan" => AllFilled(lastEvent.scanFormData)
    /\ \A r \in requests : AllFilled(r.scanFormData)
    /\ (Mounted /\ Phase = "Running") => AllFilled(scanFormData)

C17_Witness ==
    /\ lastEvent.op = "RunScan" /\ lastEvent.token
    /\ Phase = "Running"
    /\ scanFormData.scanTriggerCurl = << " ", "b" >>
    /\ scanFormData.clientResultCurl = << "c", "\n" >>

\* Every required field of the selected datastore has a value that is
\* non-empty after trimming.
RequiredFilled(datastore, bundle) ==
    \A i \in 1..Len(getRequiredFields(datastore)) :
        /\ getRequiredFields(datastore)[i] \in DOMAIN bundle
        /\ Trim(bundle[getRequiredFields(datastore)[i]]) # EmptyStr

\* C18 as stated: in the field-entry step "Save & Upload" is enabled if and
\* only if every required field of the selected datastore is non-empty after
\* trimming.
C18_SaveUploadIffValid ==
    (WizardOpen /\ WizardStep = "fields")
        => (SaveUploadEnabled <=> RequiredFilled(selectedDatastore, credentials))

\* C18 amended: it is enabled if and only if every required field is
\* non-empty after trimming and no upload is in progress; every press that is
\* taken has such a bundle.
C18_SaveUploadIffValidAndIdle ==
    /\ (WizardOpen /\ WizardStep = "fields")
          => (SaveUploadEnabled
                <=> (RequiredFilled(selectedDatastore, credentials) /\ ~isUploading))
    /\ lastEvent.op = "SaveUpload"
          => RequiredFilled(lastEvent.before.selectedDatastore, lastEvent.before.credentials)

C18_Witness ==
    /\ WizardOpen /\ WizardStep = "fields"
    /\ selectedDatastore = Some("aws-rds")
    /\ RequiredFilled(selectedDatastore, credentials)
    /\ credentials["RDS_HOST"] = << " ", "m" >>
    /\ isUploading
    /\ ~SaveUploadEnabled

\* The run of handleUpload that the last press started.
PressedSubmission(sub) ==
    /\ sub.id = lastEvent.id
    /\ sub.provider = lastEvent.before.selectedDatastore[1]
    /\ sub.credentials = lastEvent.before.credentials
    /\ sub.live

\* C19: a press for aws-s3 sends the pre-store call with the trimmed bucket
\* name and no upload call; the upload call of that run (provider aws-s3, the
\* bundle of the press) is sent in the step in which its pre-store call
\* succeeds; a press for another datastore sends the upload call at once and
\* no pre-store call; no other step sends an upload call.
C19_PreStoreBeforeUpload ==
    /\ [](lastEvent.op = "SaveUpload"
            => IF lastEvent.before.selectedDatastore = Some("aws-s3")
               THEN /\ preStorePosts = lastEvent.preStorePosts + 1
                    /\ uploadPosts = lastEvent.uploadPosts
                    /\ \E sub \in submissions :
                          /\ PressedSubmission(sub)
                          /\ sub.stage = "prestore"
                          /\ sub.bucket_name = Trim(lastEvent.before.credentials["AWS_BUCKET_NAME"])
               ELSE /\ preStorePosts = lastEvent.preStorePosts
                    /\ uploadPosts = lastEvent.uploadPosts + 1
                    /\ \E sub \in submissions :
                          /\ PressedSubmission(sub)
                          /\ sub.stage = "upload")
    /\ [](lastEvent.op = "PreStoreResponse"
            => /\ lastEvent.submission.provider = "aws-s3"
               /\ uploadPosts = lastEvent.uploadPosts
                                  + (IF ResponseOk(lastEvent.response) THEN 1 ELSE 0)
               /\ ResponseOk(lastEvent.response)
                     => [lastEvent.submission EXCEPT !.stage = "upload"] \in submissions)
    /\ [](\A sub \in submissions : sub.stage = "prestore" => sub.provider = "aws-s3")
    /\ [][uploadPosts' # uploadPosts
            => \/ lastEvent'.op = "SaveUpload"
                  /\ lastEvent'.before.selectedDatastore # Some("aws-s3")
               \/ lastEvent'.op = "PreStoreResponse" /\ ResponseOk(lastEvent'.response)]_vars

C19_Witness ==
    /\ lastEvent.op = "PreStoreResponse"
    /\ ResponseOk(lastEvent.response)
    /\ preStorePosts = 1 /\ uploadPosts = 1
    /\ \E sub \in submissions :
          /\ sub.stage = "upload"
          /\ sub.provider = "aws-s3"
          /\ sub.bucket_name = << "m" >>
          /\ sub.credentials["AWS_BUCKET_NAME"] = << " ", "m" >>

UploadAnswered == lastEvent.op = "UploadResponse" /\ lastEvent.submission.live

WizardCleared == cloudVendor = None /\ selectedDatastore = None /\ credentials = << >>

\* C22: a successful upload closes the dialog, and the next time it is
\* opened the wizard shows the vendor step with no vendor, no datastore and
\* an empty bundle.
C22_SuccessDiscardsBundle ==
    /\ (UploadAnswered /\ UploadSucceeded(lastEvent.response)) => ~isUploadModalOpen
    /\ (lastEvent.op = "OpenUploadModal" /\ uploadStatus = "success")
          => /\ WizardStep = "vendor"
             /\ WizardCleared

\* C23: every step that leaves the field step or goes from the datastore
\* step to the vendor step, and every step that enters the field step,
\* ends with an empty bundle; the bundle is empty while no datastore is
\* selected, and a bundle, shown or submitted, has only keys of its own
\* datastore.
C23_NoCarryOver ==
    /\ [][ ( \/ (WizardStep = "fields" /\ WizardStep' # "fields")
             \/ (WizardStep = "datastore" /\ WizardStep' = "vendor")
             \/ (WizardStep # "fields" /\ WizardStep' = "fields") )
           => credentials' = << >> ]_vars
    /\ [](lastEvent.op = "BackToDatastore" => WizardStep = "datastore")
    /\ [](lastEvent.op = "BackToVendor" => WizardStep = "vendor")
    /\ [](lastEvent.op = "DatastoreSelect" => WizardStep = "fields")
    /\ [](selectedDatastore = None => credentials = << >>)
    /\ [](DOMAIN credentials \subseteq Range(getRequiredFields(selectedDatastore)))
    /\ [](\A sub \in submissions :
            DOMAIN sub.credentials = Range(getRequiredFields(Some(sub.provider))))

C23_Witness ==
    /\ lastEvent.op = "DatastoreSelect"
    /\ selectedDatastore = Some("aws-rds")
    /\ credentials = << >>
    /\ \E sub \in submissions :
          /\ sub.provider = "aws-s3"
          /\ "AWS_BUCKET_NAME" \in DOMAIN sub.credentials

\* C24: "Cancel" is offered in every step of the open wizard, and after
\* Cancel the dialog is closed with vendor, datastore and bundle cleared.
C24_CancelFromEveryStep ==
    /\ WizardOpen => CancelAvailable
    /\ lastEvent.op = "Cancel"
          => /\ ~isUploadModalOpen
             /\ WizardCleared

\* C25: every run of handleUpload sends at most one pre-store and one upload
\* call, and while a run is in progress (its pre-store or its upload call
\* unanswered) "Save & Upload" cannot be pressed: a press that is taken
\* starts the only run in progress.
C25_OneSubmissionAtATime ==
    /\ preStorePosts <= submitPresses
    /\ uploadPosts <= submitPresses
    /\ (WizardOpen /\ WizardStep = "fields" /\ submissions # {}) => ~SaveUploadEnabled
    /\ lastEvent.op = "SaveUpload" => Cardinality(submissions) = 1

\* No element occurs twice in the list.
Distinct(seq) == \A i, j \in 1..Len(seq) : i # j => seq[i] # seq[j]

\* C26: each vendor has two datastore buttons and each of these datastores
\* a non-empty field list with distinct keys; null and an unknown datastore
\* have the empty list, and isFormValid is true for it; the field step is
\* only ever shown with a non-empty field list.
C26_FieldSchemaTotal ==
    /\ \A vendor \in CloudVendors :
          /\ Len(getDatastoresForVendor(Some(vendor))) = 2
          /\ \A datastore \in Range(getDatastoresForVendor(Some(vendor))) :
                /\ Len(getRequiredFields(Some(datastore))) > 0
                /\ Distinct(getRequiredFields(Some(datastore)))
    /\ getRequiredFields(None) = << >>
    /\ getRequiredFields(Some("unknown")) = << >>
    /\ selectedDatastore = None => isFormValid
    /\ WizardStep = "fields" => Len(getRequiredFields(selectedDatastore)) > 0

C26_Witness ==
    /\ WizardOpen /\ WizardStep = "fields"
    /\ selectedDatastore = Some("aws-rds")
    /\ Len(getRequiredFields(selectedDatastore)) = 5
    /\ ~isFormValid

\* The last step was the answer to a download GET that failed.
DownloadFailed == lastEvent.op = "DownloadResponse" /\ ~ResponseOk(lastEvent.response)

\* C27: a report or artifact download that is answered with a status
\* outside 2xx, or whose fetch is rejected, shows an error notification.
C27_DownloadFailureSurfaced == DownloadFailed => toast = "Download failed"

\* The other download button.
Other(kind) == IF kind = "report" THEN "artifacts" ELSE "report"

\* C28: a download button is pressed only in the Completed phase, a press
\* sends one GET of its own kind and none of the other, an answer settles
\* one GET of its kind, and neither a press nor an answer, ok or not,
\* changes the view flags, the form, scanResults, the persisted record or
\* the scan requests.
C28_DownloadsLeaveScanAlone ==
    /\ [](lastEvent.op = "Download" => lastEvent.from = "Completed")
    /\ [][ lastEvent'.op = "Download"
           => /\ downloads'[lastEvent'.kind] = downloads[lastEvent'.kind] + 1
              /\ downloads'[Other(lastEvent'.kind)] = downloads[Other(lastEvent'.kind)] ]_vars
    /\ [][ lastEvent'.op = "DownloadResponse"
           => /\ downloads'[lastEvent'.kind] = downloads[lastEvent'.kind] - 1
              /\ downloads'[Other(lastEvent'.kind)] = downloads[Other(lastEvent'.kind)] ]_vars
    /\ [][ lastEvent'.op \in {"Download", "DownloadResponse"}
           => UNCHANGED << isScanning, scanCompleted, isScanExpanded, scanFormData,
                           scanResults, localStorage, requests >> ]_vars

C28_Witness ==
    /\ DownloadFailed
    /\ lastEvent.kind = "artifacts"
    /\ Phase = "Completed"
    /\ StoredFlags(localStorage).scanCompleted
    /\ scanResults # None
    /\ downloads["report"] = 1

\* The probes of a form in the order of curl_commands.
Probes(form) == << form.bearerTokenCurl, form.scanTriggerCurl, form.clientResultCurl >>

\* The last step was a press of "Run Scan" that sent the scan POST.
RunSent == lastEvent.op = "RunScan" /\ scanPosts = lastEvent.scanPosts + 1

\* C29: when a press of "Run Scan" has sent the scan POST, the persisted
\* record has isScanning = true and scanCompleted = false, and the request
\* carries three probes: bearer-token, scan-trigger, inventory-fetch, equal
\* to the scanFormData of the record and to the form that was submitted.
C29_RecordWrittenWithPost ==
    RunSent
        => \E r \in requests :
              /\ r.id = runPresses
              /\ requests = lastEvent.requests \cup {r}
              /\ Len(r.curl_commands) = 3
              /\ r.curl_commands = Probes(lastEvent.scanFormData)
              /\ r.curl_commands = Probes(StoredForm)
              /\ StoredFlags(localStorage).isScanning
              /\ ~StoredFlags(localStorage).scanCompleted
              /\ StoredPhase = "Running"

C29_Witness ==
    /\ RunSent
    /\ scanPosts = 2
    /\ StoredPhase = "Running"
    /\ \E r \in requests :
          /\ r.id = runPresses
          /\ r.curl_commands = << << "\"", "\\" >>, << " ", "b" >>, << "c", "\n" >> >>
          /\ r.curl_commands = Probes(StoredForm)

\* C30: whenever the mounted Dashboard is in the Running phase, scanResults
\* is null.
C30_RunningHasNoResult == (Mounted /\ Phase = "Running") => scanResults = None

\* The mounted Dashboard shows the progress view.
Running == Mounted /\ Phase = "Running"

\* The definition of the persisted record: the scanFormData of the object
\* last handed to saveScanState, none after clearScanState.
SavedDefinition == IF lastSaved = None THEN None ELSE Some(lastSaved[1].scanFormData)

\* C31: a step taken while the mounted Dashboard is Running is no press of
\* Start, Run, Re-run or a download button and no keystroke in the form,
\* and unless it is Reset it leaves the definition of the persisted record
\* and, on the Dashboard that stays mounted, scanFormData as they were.
C31_RunningAcceptsNoInput ==
    [][ Running
        => /\ lastEvent'.op \notin {"StartScan", "Keystroke", "RunScan", "ReRunScan",
                                    "Download"}
           /\ lastEvent'.op # "Reset"
                 => /\ SavedDefinition' = SavedDefinition
                    /\ Mounted' => scanFormData' = scanFormData ]_vars

\* C32: a setTimeout callback never changes scanStep, and scanStep is 1
\* whenever the mounted Dashboard is not Running.
C32_StepFollowsLifecycle ==
    /\ [][ lastEvent'.op = "Timer" => scanStep' = scanStep ]_vars
    /\ []((Mounted /\ Phase # "Running") => scanStep = 1)

\* C33: every submission in flight carries a bundle in which each required
\* field of its datastore is non-empty after trimming, its pre-store call
\* the trimmed, non-empty bucket name; every scan POST in flight carries
\* three probes that are non-empty after trimming; and a press that sent a
\* call was taken on such a bundle or form.
C33_NoIncompleteRequest ==
    /\ \A sub \in submissions :
          /\ RequiredFilled(Some(sub.provider), sub.credentials)
          /\ sub.provider = "aws-s3"
                => /\ sub.bucket_name # EmptyStr
                   /\ sub.bucket_name = Trim(sub.credentials["AWS_BUCKET_NAME"])
    /\ \A r \in requests :
          /\ Len(r.curl_commands) = 3
          /\ \A i \in 1..3 : Trim(r.curl_commands[i]) # EmptyStr
    /\ (lastEvent.op = "SaveUpload"
          /\ preStorePosts + uploadPosts > lastEvent.preStorePosts + lastEvent.uploadPosts)
          => RequiredFilled(lastEvent.before.selectedDatastore, lastEvent.before.credentials)
    /\ RunSent => AllFilled(lastEvent.scanFormData)

C33_Witness ==
    /\ \E sub \in submissions :
          /\ sub.stage = "prestore"
          /\ sub.credentials["AWS_BUCKET_NAME"] = << " ", "m" >>
          /\ sub.bucket_name = << "m" >>
    /\ \E r \in requests : r.curl_commands[2] = << " ", "b" >>
    /\ uploadPosts = 1

\* C34: the answer to a scan POST that finds the Dashboard which sent it in
\* Idle (after Reset) leaves it in Idle with scanResults null, the probes
\* empty and no persisted record; and an answer that changes the phase to
\* Completed found the Dashboard in Running.
C34_LateResponseKeepsReset ==
    /\ (Responded /\ lastEvent.request.live /\ lastEvent.from = "Idle")
          => /\ Phase = "Idle"
             /\ scanResults = None
             /\ scanFormData = EmptyForm
             /\ GetItem(SCAN_STATE_KEY) = None
    /\ (Responded /\ Mounted /\ Phase = "Completed" /\ lastEvent.from # "Completed")
          => lastEvent.from = "Running"

\* The conditions of the scan card's render chain that hold of three flags.
ViewsSelected(expanded, scanning, completed) ==
    { v \in {"start", "form", "progress", "completed"} :
        \/ v = "start" /\ ~expanded /\ ~scanning /\ ~completed
        \/ v = "form" /\ expanded /\ ~scanning /\ ~completed
        \/ v = "progress" /\ scanning
        \/ v = "completed" /\ completed }

\* C35: isScanning and scanCompleted are never both true, neither in memory
\* nor in the flags a mount restores from the persisted record, and the
\* flags in memory satisfy the condition of exactly one of the four views
\* (start, form, progress, completed).
C35_PhasesExclusive ==
    /\ ~(isScanning /\ scanCompleted)
    /\ \E f \in { StoredFlags(localStorage) } : ~(f.isScanning /\ f.scanCompleted)
    /\ Cardinality(ViewsSelected(isScanExpanded, isScanning, scanCompleted)) = 1

\* A completed scan with its record, reached by a response that found the
\* progress view.
C35_Witness ==
    /\ Responded
    /\ lastEvent.from = "Running"
    /\ Mounted
    /\ scanCompleted
    /\ \E f \in { StoredFlags(localStorage) } : f.scanCompleted /\ ~f.isScanning

\* The generic upload calls in flight.
UploadsInFlight == { sub \in submissions : sub.stage = "upload" }

\* C36: while a generic upload call is in flight for the mounted Dashboard,
\* isUploading is true, and at most one generic upload call is in flight.
C36_UploadingWhileInFlight ==
    /\ (\E sub \in UploadsInFlight : sub.live) => isUploading
    /\ Cardinality(UploadsInFlight) <= 1

\* C37: when the pre-store call of a submission has gone through and its
\* generic upload call is issued, the dialog is open in the field step with
\* the datastore and the bundle the submission was pressed with.
C37_HandOffAtomic ==
    (lastEvent.op = "PreStoreResponse" /\ ResponseOk(lastEvent.response))
       => /\ lastEvent.open
          /\ lastEvent.before.selectedDatastore = Some(lastEvent.submission.provider)
          /\ lastEvent.before.credentials = lastEvent.submission.credentials

\* C38: in every wizard state a selected datastore comes with a selected
\* vendor and is one of that vendor's datastores, the bundle is empty while
\* no datastore is selected, and every key of the bundle is a required field
\* of the selected datastore.
C38_WizardWellFormed ==
    /\ selectedDatastore # None
          => /\ cloudVendor # None
             /\ selectedDatastore[1] \in Range(getDatastoresForVendor(cloudVendor))
    /\ selectedDatastore = None => credentials = << >>
    /\ DOMAIN credentials \subseteq Range(getRequiredFields(selectedDatastore))

\* The field step of gcp-bigquery with every required field typed.
C38_Witness ==
    /\ WizardOpen
    /\ cloudVendor = Some("gcp")
    /\ selectedDatastore = Some("gcp-bigquery")
    /\ DOMAIN credentials = Range(getRequiredFields(selectedDatastore))
    /\ Cardinality(DOMAIN credentials) > 1
    /\ lastEvent.op = "CredentialChange"

\* ------------------------------------------------------------------------
\* The scan card of a session that is never reloaded, with every scan POST
\* answered in the end
\* ------------------------------------------------------------------------

LiveInit ==
    /\ Init
    /\ GetItem(AUTH_TOKEN_KEY) # None
    /\ GetItem(SCAN_STATE_KEY) = None

\* The steps of a signed-in session in one document: the scan card, Reset
\* and the Sidebar links.
LiveNext ==
    \/ StartScan
    \/ \E field \in FormFields : \E value \in ProbeValues(field) : handleScanFormChange(field, value)
    \/ handleScanFormSubmit
    \/ \E r \in requests, resp \in Responses : ScanResponse(r, resp)
    \/ ReRunScan
    \/ resetConfiguration
    \/ NavigateAway
    \/ NavigateHome

\* A fetch that was sent settles: its promise is fulfilled or rejected.
ScanRequestSettles == \E r \in requests, resp \in Responses : ScanResponse(r, resp)

LiveSpec == LiveInit /\ [][LiveNext]_vars /\ WF_vars(ScanRequestSettles)

\* C39: without a reload and with every scan POST answered in the end, a
\* Dashboard that shows the progress view shows another view later.
C39_RunningEnds == Running ~> ~Running

\* C40: once a generic upload call of the mounted Dashboard is answered,
\* isUploading is false, and uploadStatus is 'success' when the answer was
\* an HTTP response of status 2xx with a JSON body and 'error' for every
\* other answer (another status, a body that is no JSON, a rejected promise).
C40_UploadTerminates ==
    UploadAnswered
       => /\ ~isUploading
          /\ uploadStatus =
                (IF /\ lastEvent.response.kind = "http"
                    /\ lastEvent.response.status \in 200..299
                    /\ lastEvent.response.json
                 THEN "success" ELSE "error")

\* An answer of status 500 with a JSON body: the error state, and the flag
\* cleared with no other call in flight.
C40_Witness ==
    /\ UploadAnswered
    /\ lastEvent.response.kind = "http" /\ lastEvent.response.status = 500
    /\ lastEvent.response.json
    /\ uploadStatus = "error"
    /\ ~isUploading
    /\ submissions = {}

====
